---- MODULE Spec2Model ----
(***************************************************************************)
(* The finetuning tutorial notebook examples/06-Finetuning/finetuning.ipynb *)
(* as a state machine: one action per code cell that changes state, the    *)
(* kernel's variables and the files the cells read and write as state.     *)
(*                                                                         *)
(* Scores (NSE values) are integers counting 0.0005: 0.5 is 1000, 0.65 is   *)
(* 1300, 0.602 is 1204.  Every score of a results mapping is even (a whole  *)
(* number of thousandths), so the mean of two scores is an integer.         *)
(* Text (a file's content) is a sequence of string tokens; "\n" is the line *)
(* terminator.                                                              *)
(***************************************************************************)
EXTENDS Integers, Sequences, FiniteSets, TLC

VARIABLES
    pc,                  \* the next cell of the notebook to execute
    error,               \* the exception that ended the execution, or NoError
    fs_validation,       \* <run_dir>/validation/model_epoch003/validation_results.p
    fs_test_base,        \* <run_dir>/test/model_epoch003/test_results.p
    fs_test_finetuned,   \* <finetune_dir>/test/model_epoch010/test_results.p
    finetune_yml,        \* content of finetune.yml
    finetune_basin_txt,  \* content of finetune_basin.txt, or NoFile
    run_dir,             \* kernel variables; a name not in `defined` is unassigned
    validation_results,
    median_nse,
    basins,
    basin,
    finetune_dir,
    base_model_results,
    finetuned_results,
    base_model_nse,
    finetune_nse,
    defined,             \* the names of the kernel variables that are assigned
    cell_runs,           \* how often the augmentation cell has been executed
    yml_before,          \* finetune.yml before the last execution of that cell
    basin_txt_before,    \* finetune_basin.txt before the last execution of that cell
    calls,               \* the invocations of start_run, finetune and eval_run so far
    np_random_draws      \* how often numpy's global generator has been drawn from

vars == <<pc, error, fs_validation, fs_test_base, fs_test_finetuned, finetune_yml,
          finetune_basin_txt, run_dir, validation_results, median_nse, basins, basin,
          finetune_dir, base_model_results, finetuned_results, base_model_nse,
          finetune_nse, defined, cell_runs, yml_before, basin_txt_before, calls,
          np_random_draws>>

files == <<fs_validation, fs_test_base, fs_test_finetuned, finetune_yml, finetune_basin_txt>>

selection_vars == <<validation_results, median_nse, basins, basin>>

comparison_vars == <<base_model_results, finetuned_results, base_model_nse, finetune_nse>>

history == <<cell_runs, yml_before, basin_txt_before>>

(***************************************************************************)
(* Bounds of the model.                                                    *)
(***************************************************************************)
NumBasins == 4    \* basins of a validation results mapping
MaxLines == 2     \* lines of a configuration document before augmentation
MaxCellRuns == 2  \* executions of the augmentation cell on one document

(***************************************************************************)
(* Values.                                                                 *)
(***************************************************************************)
EmptyMap == [x \in {} |-> 0]

\* a file with content c, and a path at which no file exists
File(c) == [exists |-> TRUE, content |-> c]

NoFile == [exists |-> FALSE, content |-> <<>>]

\* a float: a number or numpy's not-a-number
Num(n) == [nan |-> FALSE, val |-> n]

NaN == [nan |-> TRUE, val |-> 0]

NoError == [type |-> "none", arg |-> "none"]

\* an invocation of an entry point of neuralhydrology.nh_run: its name, its path
\* argument, its period argument ("" if it has none) and whether it returned
Call(fn, arg, period, ok) == [fn |-> fn, arg |-> arg, period |-> period, ok |-> ok]

\* the code cells that change state, in the order of the notebook
CellOrder ==
    <<"start_run", "select", "augment", "finetune", "eval_base", "eval_finetuned", "compare">>

\* the notebook without the cell that prepares the finetuning
MutNextCellSkipsAugment(cell) ==
    IF cell = "select" THEN "finetune"
    ELSE IF cell = CellOrder[Len(CellOrder)] THEN "done"
    ELSE CellOrder[(CHOOSE i \in 1..Len(CellOrder) : CellOrder[i] = cell) + 1]

\* the notebook with the comparison cell before the evaluation of the finetuned run
MutNextCellComparesEarly(cell) ==
    IF cell = "eval_base" THEN "compare"
    ELSE IF cell = "compare" THEN "eval_finetuned"
    ELSE IF cell = "eval_finetuned" THEN "done"
    ELSE CellOrder[(CHOOSE i \in 1..Len(CellOrder) : CellOrder[i] = cell) + 1]

\* the notebook with both evaluation cells before the finetuning cell
MutNextCellEvaluatesFirst(cell) ==
    IF cell = "augment" THEN "eval_base"
    ELSE IF cell = "eval_finetuned" THEN "finetune"
    ELSE IF cell = "finetune" THEN "compare"
    ELSE IF cell = CellOrder[Len(CellOrder)] THEN "done"
    ELSE CellOrder[(CHOOSE i \in 1..Len(CellOrder) : CellOrder[i] = cell) + 1]

\* the cell that is executed after a cell that raised nothing
NextCell(cell) ==
    IF cell = CellOrder[Len(CellOrder)] THEN "done"
    ELSE CellOrder[(CHOOSE i \in 1..Len(CellOrder) : CellOrder[i] = cell) + 1]

BasinOrder == <<"A", "B", "C", "D", "E">>

Basins == {BasinOrder[i] : i \in 1..NumBasins}

\* 0.5, 0.6, 0.7, 0.8
ValidationScores == {1000, 1200, 1400, 1600}

\* 0.602, 0.717
TestScores == {1204, 1434}

\* metric name -> score
MetricMaps(S) == {EmptyMap} \cup {[m \in {"NSE"} |-> s] : s \in S}

\* temporal resolution -> (metric name -> score)
Records(S) == {EmptyMap} \cup {[f \in {"1D"} |-> mm] : mm \in MetricMaps(S)}

\* the validation results of a run: every validated basin has a record
ValidationMappings == [Basins -> Records(ValidationScores)]

\* the test results of a run, as far as basin b is concerned
TestMappings(b) == {EmptyMap} \cup {[k \in {b} |-> r] : r \in Records(TestScores)}

\* the validation results with A: 0.5, B: 0.6, C: 0.7, D: 0.8 and no NSE for
\* any further basin
ScenarioScore(k) == CASE k = "A" -> 1000 [] k = "B" -> 1200 [] k = "C" -> 1400 [] OTHER -> 1600

ScenarioMapping ==
    [k \in Basins |->
        IF k \in {"A", "B", "C", "D"}
        THEN [f \in {"1D"} |-> [x \in {"NSE"} |-> ScenarioScore(k)]]
        ELSE [f \in {"1D"} |-> EmptyMap]]

\* Path("531_basins.yml") and Path("finetune.yml")
ConfigFile == <<"531_basins.yml">>

FinetuneConfigFile == <<"finetune.yml">>

RunDirPath == <<"runs/", "cudalstm_maurer_531_basins_1201_213010">>

FinetuneDirPath == <<"runs/", "cudalstm_maurer_531_basins_finetuned_1201_215500">>

\* the working directory of the notebook's kernel
Cwd == <<"/", "home/frederik/Projects/neuralhydrology/examples/06-Finetuning/">>

\* finetune.yml as the notebook shows it (comments and blank lines left out), and
\* the same document without the last line terminator
TutorialConfig ==
    <<"experiment_name", ": ", "cudalstm_maurer_531_basins_finetuned", "\n",
      "epochs", ": ", "10", "\n",
      "finetune_modules:", "\n", "- head", "\n", "- lstm", "\n">>

TutorialDocs == {TutorialConfig, SubSeq(TutorialConfig, 1, Len(TutorialConfig) - 1)}

\* key-value lines of a configuration document
ConfigLines ==
    { <<"experiment_name", ": ", "cudalstm_maurer_531_basins_finetuned">>,
      <<"epochs", ": ", "10">>,
      <<"seed", ": ", "123">> }

RECURSIVE JoinLines(_)
JoinLines(ls) ==
    IF ls = <<>> THEN <<>>
    ELSE IF Len(ls) = 1 THEN ls[1]
    ELSE ls[1] \o <<"\n">> \o JoinLines(Tail(ls))

\* documents of at most MaxLines key-value lines, the last line with or without
\* its line terminator
ConfigDocs ==
    LET seqs == UNION {[1..n -> ConfigLines] : n \in 0..MaxLines}
    IN  {JoinLines(ls) : ls \in seqs} \cup {JoinLines(ls) \o <<"\n">> : ls \in seqs \ {<<>>}}

\* what finetune_basin.txt may hold before the notebook writes it
OldBasinFiles == {NoFile, File(<<"01013500", "\n", "01022500", "\n">>)}

(***************************************************************************)
(* Basin selection: the median and the candidate list.                     *)
(***************************************************************************)
\* the keys of a results mapping, in the order the mapping iterates them
BasinSeq(m) == SelectSeq(BasinOrder, LAMBDA k : k \in DOMAIN m)

\* v["1D"] succeeds for every record of the mapping
HasResolution(m) == \A k \in DOMAIN m : "1D" \in DOMAIN m[k]

\* "NSE" in v["1D"].keys()
HasNSE(m, k) == "NSE" \in DOMAIN m[k]["1D"]

\* [v["1D"]["NSE"] for v in validation_results.values() if "NSE" in v["1D"].keys()]
NseValues(m) ==
    LET ks == SelectSeq(BasinSeq(m), LAMBDA k : HasNSE(m, k))
    IN  [i \in 1..Len(ks) |-> m[ks[i]]["1D"]["NSE"]]

RECURSIVE Insert(_, _)
Insert(x, s) ==
    IF s = <<>> THEN <<x>>
    ELSE IF x <= Head(s) THEN <<x>> \o s
    ELSE <<Head(s)>> \o Insert(x, Tail(s))

RECURSIVE Sort(_)
Sort(s) == IF s = <<>> THEN <<>> ELSE Insert(Head(s), Sort(Tail(s)))

\* a median that takes the lower of the two middle values instead of their mean
MutMedianLowerMiddle(s) ==
    LET n == Len(s)
        t == Sort(s)
    IN  IF n = 0 THEN NaN ELSE Num(t[(n + 1) \div 2])

\* np.median: the middle value of the sorted list, the mean of the two middle
\* values when the list has an even length, nan for the empty list
Median(s) ==
    LET n == Len(s)
        t == Sort(s)
    IN  IF n = 0 THEN NaN
        ELSE IF n % 2 = 1 THEN Num(t[(n + 1) \div 2])
        ELSE Num((t[n \div 2] + t[n \div 2 + 1]) \div 2)

\* the comparison written as <=
MutBelowOrEqual(score, med) == ~med.nan /\ score <= med.val

\* score < median_nse; every comparison with nan is False
Below(score, med) == ~med.nan /\ score < med.val

\* the loop over validation_results.items() that appends to basins
Candidates(m, med) ==
    SelectSeq(BasinSeq(m), LAMBDA k : HasNSE(m, k) /\ Below(m[k]["1D"]["NSE"], med))

\* a selection loop that removes the candidates from the mapping
MutSelectionPopsCandidates(m) ==
    LET med == Median(NseValues(m))
        cand == Candidates(m, med)
    IN  [results |-> [k \in DOMAIN m \ {cand[i] : i \in 1..Len(cand)} |-> m[k]],
         median |-> med, basins |-> cand]

\* what the selection cell leaves in validation_results, median_nse and basins
\* when every record of the loaded mapping m has the resolution
SelectionEffects(m) ==
    LET med == Median(NseValues(m))
    IN  [results |-> m, median |-> med, basins |-> Candidates(m, med)]

(***************************************************************************)
(* The two files the notebook writes.                                      *)
(***************************************************************************)
\* Path.absolute(): the working directory is prepended to a relative path
Absolute(p) == IF p # <<>> /\ p[1] = "/" THEN p ELSE Cwd \o p

\* an append that starts a new line first
MutConfigAugmentationNewLine(doc, dir) ==
    doc \o <<"\n", "base_run_dir", ": ">> \o Absolute(dir)

\* open("finetune.yml", "a"); fp.write(f"base_run_dir: {run_dir.absolute()}")
ConfigAugmentation(doc, dir) == doc \o <<"base_run_dir", ": ">> \o Absolute(dir)

\* the first candidate written instead of the selected basin
MutBasinFileFirstCandidate(old, b) == File(<<basins[1]>>)

\* the basin file opened in append mode
MutBasinFileAppend(old, b) == File(old.content \o <<b>>)

\* open("finetune_basin.txt", "w"); fp.write(basin)
BasinFileEmission(old, b) == File(<<b>>)

(***************************************************************************)
(* Result comparison.                                                      *)
(***************************************************************************)
\* the outcome of a subscript chain: a value, or the KeyError of the first key
\* that is not found
Found(v) == [ok |-> TRUE, key |-> "", val |-> v]

KeyError(k) == [ok |-> FALSE, key |-> k, val |-> 0]

\* the metric read with a default, as by .get("NSE", 0)
MutExtractDefault(m, b) ==
    IF b \notin DOMAIN m THEN KeyError(b)
    ELSE IF "1D" \notin DOMAIN m[b] THEN KeyError("1D")
    ELSE IF "NSE" \notin DOMAIN m[b]["1D"] THEN Found(0)
    ELSE Found(m[b]["1D"]["NSE"])

\* the metric rounded to two decimals
MutExtractRounded(m, b) ==
    IF b \notin DOMAIN m THEN KeyError(b)
    ELSE IF "1D" \notin DOMAIN m[b] THEN KeyError("1D")
    ELSE IF "NSE" \notin DOMAIN m[b]["1D"] THEN KeyError("NSE")
    ELSE Found((m[b]["1D"]["NSE"] \div 20) * 20)

\* results[b]["1D"]["NSE"]
Extract(m, b) ==
    IF b \notin DOMAIN m THEN KeyError(b)
    ELSE IF "1D" \notin DOMAIN m[b] THEN KeyError("1D")
    ELSE IF "NSE" \notin DOMAIN m[b]["1D"] THEN KeyError("NSE")
    ELSE Found(m[b]["1D"]["NSE"])

\* the exception of the two extractions from the mappings a and b, which do not
\* both have the value: the KeyError of the first subscript that fails
ComparisonError(a, b, k) ==
    IF ~Extract(a, k).ok
    THEN [type |-> "KeyError", arg |-> Extract(a, k).key]
    ELSE [type |-> "KeyError", arg |-> Extract(b, k).key]

(***************************************************************************)
(* The notebook, executed from top to bottom.                              *)
(***************************************************************************)
Init ==
    /\ pc = "start_run"
    /\ error = NoError
    /\ fs_validation = NoFile
    /\ fs_test_base = NoFile
    /\ fs_test_finetuned = NoFile
    /\ finetune_yml \in TutorialDocs
    /\ finetune_basin_txt \in OldBasinFiles
    /\ run_dir = <<>>
    /\ validation_results = EmptyMap
    /\ median_nse = NaN
    /\ basins = <<>>
    /\ basin = ""
    /\ finetune_dir = <<>>
    /\ base_model_results = EmptyMap
    /\ finetuned_results = EmptyMap
    /\ base_model_nse = NaN
    /\ finetune_nse = NaN
    /\ defined = {}
    /\ cell_runs = 0
    /\ yml_before = <<>>
    /\ basin_txt_before = NoFile
    /\ calls = <<>>
    /\ np_random_draws = 0

\* an exception that is recorded while the execution goes on with the next cell
MutRaiseAndContinue(type, arg) ==
    /\ pc' = NextCell(pc)
    /\ error' = [type |-> type, arg |-> arg]

\* an exception ends the execution of the notebook
Raise(type, arg) ==
    /\ pc' = "failed"
    /\ error' = [type |-> type, arg |-> arg]

\* start_run(config_file=config_file): trains, validates and stores the validation
\* results in the run directory, or fails
StartRun ==
    /\ pc = "start_run"
    /\ \/ /\ \E m \in ValidationMappings : fs_validation' = File(m)
          /\ calls' = Append(calls, Call("start_run", ConfigFile, "", TRUE))
          /\ pc' = NextCell(pc)
          /\ error' = error
       \/ /\ Raise("ExternalError", "start_run")
          /\ calls' = Append(calls, Call("start_run", ConfigFile, "", FALSE))
          /\ fs_validation' = fs_validation
    /\ UNCHANGED <<fs_test_base, fs_test_finetuned, finetune_yml, finetune_basin_txt,
                   run_dir, selection_vars, finetune_dir, comparison_vars, defined,
                   history, np_random_draws>>

\* the cell that loads the validation results, computes the median and selects
\* a basin; np.random.choice may return any element of basins
SelectionCell ==
    /\ pc = "select"
    /\ run_dir' = RunDirPath
    /\ IF ~fs_validation.exists
       THEN /\ Raise("FileNotFoundError", "validation_results.p")
            /\ defined' = defined \cup {"run_dir"}
            /\ np_random_draws' = np_random_draws
            /\ UNCHANGED selection_vars
       ELSE LET m == fs_validation.content
            IN  IF ~HasResolution(m)
                   THEN /\ Raise("KeyError", "1D")
                        /\ validation_results' = m
                        /\ defined' = defined \cup {"run_dir", "validation_results"}
                        /\ np_random_draws' = np_random_draws
                        /\ UNCHANGED <<median_nse, basins, basin>>
                   ELSE LET eff == SelectionEffects(m)
                            cand == eff.basins
                        IN  /\ validation_results' = eff.results
                            /\ median_nse' = eff.median
                            /\ basins' = cand
                            /\ IF cand = <<>>
                               THEN /\ Raise("ValueError", "'a' cannot be empty unless no samples are taken")
                                    /\ defined' = defined \cup {"run_dir", "validation_results",
                                                               "median_nse", "basins"}
                                    /\ np_random_draws' = np_random_draws
                                    /\ basin' = basin
                               ELSE /\ \E i \in 1..Len(cand) : basin' = cand[i]
                                    /\ np_random_draws' = np_random_draws + 1
                                    /\ defined' = defined \cup {"run_dir", "validation_results",
                                                               "median_nse", "basins", "basin"}
                                    /\ pc' = NextCell(pc)
                                    /\ error' = error
    /\ UNCHANGED <<files, finetune_dir, comparison_vars, history, calls>>

\* the two writes of the cell that prepares the finetuning
AugmentWrites ==
    /\ finetune_yml' = ConfigAugmentation(finetune_yml, run_dir)
    /\ finetune_basin_txt' = BasinFileEmission(finetune_basin_txt, basin)
    /\ cell_runs' = cell_runs + 1
    /\ yml_before' = finetune_yml
    /\ basin_txt_before' = finetune_basin_txt
    /\ UNCHANGED <<error, fs_validation, fs_test_base, fs_test_finetuned, run_dir,
                   selection_vars, finetune_dir, comparison_vars, defined, calls,
                   np_random_draws>>

AugmentCell ==
    /\ pc = "augment"
    /\ AugmentWrites
    /\ pc' = NextCell(pc)

\* finetune(Path("finetune.yml")): trains the finetuned run, or fails
Finetune ==
    /\ pc = "finetune"
    /\ \/ /\ calls' = Append(calls, Call("finetune", FinetuneConfigFile, "", TRUE))
          /\ pc' = NextCell(pc)
          /\ error' = error
       \/ /\ Raise("ExternalError", "finetune")
          /\ calls' = Append(calls, Call("finetune", FinetuneConfigFile, "", FALSE))
    /\ UNCHANGED <<files, run_dir, selection_vars, finetune_dir, comparison_vars,
                   defined, history, np_random_draws>>

\* eval_run(run_dir, period="test"): stores the test results of the base run, or fails
EvalBase ==
    /\ pc = "eval_base"
    /\ \/ /\ \E m \in TestMappings(basin) : fs_test_base' = File(m)
          /\ calls' = Append(calls, Call("eval_run", run_dir, "test", TRUE))
          /\ pc' = NextCell(pc)
          /\ error' = error
       \/ /\ Raise("ExternalError", "eval_run")
          /\ calls' = Append(calls, Call("eval_run", run_dir, "test", FALSE))
          /\ fs_test_base' = fs_test_base
    /\ UNCHANGED <<fs_validation, fs_test_finetuned, finetune_yml, finetune_basin_txt,
                   run_dir, selection_vars, finetune_dir, comparison_vars, defined,
                   history, np_random_draws>>

\* finetune_dir = Path(...); eval_run(finetune_dir, period="test")
EvalFinetuned ==
    /\ pc = "eval_finetuned"
    /\ finetune_dir' = FinetuneDirPath
    /\ defined' = defined \cup {"finetune_dir"}
    /\ \/ /\ \E m \in TestMappings(basin) : fs_test_finetuned' = File(m)
          /\ calls' = Append(calls, Call("eval_run", finetune_dir', "test", TRUE))
          /\ pc' = NextCell(pc)
          /\ error' = error
       \/ /\ Raise("ExternalError", "eval_run")
          /\ calls' = Append(calls, Call("eval_run", finetune_dir', "test", FALSE))
          /\ fs_test_finetuned' = fs_test_finetuned
    /\ UNCHANGED <<fs_validation, fs_test_base, finetune_yml, finetune_basin_txt,
                   run_dir, selection_vars, comparison_vars, history, np_random_draws>>

\* the cell that loads both test results and extracts the basin's NSE from each
ComparisonCell ==
    /\ pc = "compare"
    /\ IF ~fs_test_base.exists
       THEN /\ Raise("FileNotFoundError", "test_results.p")
            /\ UNCHANGED <<comparison_vars, defined>>
       ELSE IF ~fs_test_finetuned.exists
       THEN /\ Raise("FileNotFoundError", "test_results.p")
            /\ base_model_results' = fs_test_base.content
            /\ defined' = defined \cup {"base_model_results"}
            /\ UNCHANGED <<finetuned_results, base_model_nse, finetune_nse>>
       ELSE LET a == fs_test_base.content
                b == fs_test_finetuned.content
                x == Extract(a, basin)
                y == Extract(b, basin)
            IN  /\ base_model_results' = a
                /\ finetuned_results' = b
                /\ IF ~x.ok
                   THEN /\ pc' = "failed"
                        /\ error' = ComparisonError(a, b, basin)
                        /\ defined' = defined \cup {"base_model_results", "finetuned_results"}
                        /\ UNCHANGED <<base_model_nse, finetune_nse>>
                   ELSE /\ base_model_nse' = Num(x.val)
                        /\ IF ~y.ok
                           THEN /\ pc' = "failed"
                                /\ error' = ComparisonError(a, b, basin)
                                /\ defined' = defined \cup {"base_model_results",
                                                           "finetuned_results", "base_model_nse"}
                                /\ finetune_nse' = finetune_nse
                           ELSE /\ finetune_nse' = Num(y.val)
                                /\ defined' = defined \cup {"base_model_results",
                                                           "finetuned_results", "base_model_nse",
                                                           "finetune_nse"}
                                /\ pc' = NextCell(pc)
                                /\ error' = error
    /\ UNCHANGED <<files, run_dir, selection_vars, finetune_dir, history, calls,
                   np_random_draws>>

Next ==
    \/ StartRun
    \/ SelectionCell
    \/ AugmentCell
    \/ Finetune
    \/ EvalBase
    \/ EvalFinetuned
    \/ ComparisonCell

Spec == Init /\ [][Next]_vars

(***************************************************************************)
(* The cell that prepares the finetuning, executed again and again on the  *)
(* same files by a kernel that has selected a basin of ScenarioMapping.    *)
(***************************************************************************)
InitAugment ==
    /\ pc = "augment"
    /\ error = NoError
    /\ fs_validation = File(ScenarioMapping)
    /\ fs_test_base = NoFile
    /\ fs_test_finetuned = NoFile
    /\ finetune_yml \in ConfigDocs
    /\ finetune_basin_txt \in OldBasinFiles
    /\ run_dir = RunDirPath
    /\ validation_results = ScenarioMapping
    /\ median_nse = Median(NseValues(ScenarioMapping))
    /\ basins = Candidates(ScenarioMapping, median_nse)
    /\ basin \in {basins[i] : i \in 1..Len(basins)}
    /\ finetune_dir = <<>>
    /\ base_model_results = EmptyMap
    /\ finetuned_results = EmptyMap
    /\ base_model_nse = NaN
    /\ finetune_nse = NaN
    /\ defined = {"run_dir", "validation_results", "median_nse", "basins", "basin"}
    /\ cell_runs = 0
    /\ yml_before = <<>>
    /\ basin_txt_before = NoFile
    /\ calls = <<Call("start_run", ConfigFile, "", TRUE)>>
    /\ np_random_draws = 1

AugmentCellAgain ==
    /\ pc = "augment"
    /\ cell_runs < MaxCellRuns
    /\ AugmentWrites
    /\ pc' = pc

NextAugment == AugmentCellAgain

SpecAugment == InitAugment /\ [][NextAugment]_vars

(***************************************************************************)
(* Properties of the basin selection.                                      *)
(***************************************************************************)
\* the basins of a results mapping that have the metric, and their scores
WithNSE(m) == {k \in DOMAIN m : "1D" \in DOMAIN m[k] /\ "NSE" \in DOMAIN m[k]["1D"]}

Score(m, k) == m[k]["1D"]["NSE"]

\* the i-th smallest score, by counting
Kth(m, i) ==
    CHOOSE x \in {Score(m, k) : k \in WithNSE(m)} :
        /\ Cardinality({k \in WithNSE(m) : Score(m, k) < x}) < i
        /\ Cardinality({k \in WithNSE(m) : Score(m, k) <= x}) >= i

\* twice the median of the scores of a mapping in which some basin has the metric
TwiceMedian(m) ==
    LET n == Cardinality(WithNSE(m))
    IN  Kth(m, (n + 1) \div 2) + Kth(m, (n + 2) \div 2)

\* the selection cell has returned a basin
Selected == "basin" \in defined

\* C1: a basin that the selector returns has the metric, and its value is
\* strictly less than the median over exactly the basins that have the metric.
C1_SelectedStrictlyBelowMedian ==
    Selected =>
        /\ basin \in WithNSE(validation_results)
        /\ 2 * Score(validation_results, basin) < TwiceMedian(validation_results)
        /\ median_nse = Num(TwiceMedian(validation_results) \div 2)

\* a basin was returned although another basin's value equals the median
C1_Witness ==
    /\ Selected
    /\ \E k \in WithNSE(validation_results) :
          2 * Score(validation_results, k) = TwiceMedian(validation_results)

\* C2: on {A: 0.5, B: 0.6, C: 0.7, D: 0.8} the median is 0.65, the candidates are
\* exactly A and B, each of A and B can be returned and C and D cannot.
C2_ScenarioCandidates ==
    /\ (pc = "select" /\ fs_validation = File(ScenarioMapping)) =>
          \A k \in Basins :
             (ENABLED (SelectionCell /\ basin' = k /\ pc' = "augment")) <=> k \in {"A", "B"}
    /\ ("basins" \in defined /\ validation_results = ScenarioMapping) =>
          /\ median_nse = Num(1300)
          /\ {basins[i] : i \in 1..Len(basins)} = {"A", "B"}
          /\ basin \in {"A", "B"}
          /\ Selected

\* the scenario's selection has returned B, the second of the two candidates
C2_Witness ==
    /\ validation_results = ScenarioMapping
    /\ Selected
    /\ basin = "B"

\* the selection cell has run to the random choice and found no candidate
NoCandidate ==
    /\ pc = "failed"
    /\ "basins" \in defined
    /\ ~Selected

\* C3: when exactly one basin has the metric, the selector fails with the
\* descriptive "no qualifying basin" error, not with the error of the random choice.
C3_OneBasinDescriptiveError ==
    (NoCandidate /\ Cardinality(WithNSE(validation_results)) = 1) =>
        /\ error.type = "NoQualifyingBasinError"
        /\ error.type # "ValueError"

\* C4: when no basin has the metric, the selector fails with the descriptive
\* "no qualifying basin" error and propagates no error of the median or the choice.
C4_NoMetricDescriptiveError ==
    (pc = "failed" /\ "validation_results" \in defined
        /\ HasResolution(validation_results) /\ WithNSE(validation_results) = {}) =>
        /\ error.type = "NoQualifyingBasinError"
        /\ ~Selected

\* the basins that hold the smallest score
AtMinimum(m) ==
    {k \in WithNSE(m) : \A j \in WithNSE(m) : Score(m, k) <= Score(m, j)}

\* C5, as stated: when more than one basin has a value, some basin's value is
\* strictly below the median, so the candidate list is not empty.
C5_Original ==
    ("basins" \in defined /\ Cardinality(WithNSE(validation_results)) > 1) =>
        basins # <<>>

\* C5, amended: when more than one basin has a value, the candidate list is
\* non-empty exactly when at most half of those basins (rounded down) hold the
\* smallest value.
C5_CandidatesIffMinimumIsMinority ==
    ("basins" \in defined /\ Cardinality(WithNSE(validation_results)) > 1) =>
        (basins # <<>> <=>
            Cardinality(AtMinimum(validation_results))
                <= Cardinality(WithNSE(validation_results)) \div 2)

\* four basins have a value, two of them share the smallest one, and a basin
\* was selected
C5_Witness ==
    /\ Selected
    /\ Cardinality(WithNSE(validation_results)) = 4
    /\ Cardinality(AtMinimum(validation_results)) = 2

(***************************************************************************)
(* Properties of the two files.  A consumer reads a configuration document *)
(* line by line: a line "key: value" is an entry, and the last entry of a  *)
(* key gives its value.                                                    *)
(***************************************************************************)
\* the index of the first line terminator of a text, 0 if it has none
FirstTerminator(d) ==
    IF \E i \in 1..Len(d) : d[i] = "\n"
    THEN CHOOSE i \in 1..Len(d) : d[i] = "\n" /\ \A j \in 1..(i - 1) : d[j] # "\n"
    ELSE 0

RECURSIVE SplitLines(_)
SplitLines(d) ==
    IF d = <<>> THEN <<>>
    ELSE LET i == FirstTerminator(d)
         IN  IF i = 0 THEN <<d>>
             ELSE <<SubSeq(d, 1, i - 1)>> \o SplitLines(SubSeq(d, i + 1, Len(d)))

IsEntry(l) == Len(l) >= 2 /\ l[2] = ": "

Entries(d) == SelectSeq(SplitLines(d), IsEntry)

Keys(d) == {Entries(d)[i][1] : i \in 1..Len(Entries(d))}

EntryCount(d, k) == Cardinality({i \in 1..Len(Entries(d)) : Entries(d)[i][1] = k})

\* the value of key k, which the document has: the text after ": " in k's last entry
ValueOf(d, k) ==
    LET es == Entries(d)
        i == CHOOSE i \in 1..Len(es) : es[i][1] = k /\ \A j \in (i + 1)..Len(es) : es[j][1] # k
    IN  SubSeq(es[i], 3, Len(es[i]))

\* C6: after the augmentation every key that the document had still has its
\* value, whether or not the document ended with a line terminator, and
\* base_run_dir maps to exactly the path that was written.
C6_AppendOnly ==
    cell_runs = 1 =>
        /\ \A k \in Keys(yml_before) :
              k \in Keys(finetune_yml) /\ ValueOf(finetune_yml, k) = ValueOf(yml_before, k)
        /\ "base_run_dir" \in Keys(finetune_yml)
        /\ ValueOf(finetune_yml, "base_run_dir") = Absolute(run_dir)

\* C7: two augmentations of a document append two separate base_run_dir entries,
\* and a last-wins consumer reads the base-run path as the key's value.
C7_TwiceTwoEntries ==
    cell_runs = 2 =>
        /\ EntryCount(finetune_yml, "base_run_dir") = 2
        /\ ValueOf(finetune_yml, "base_run_dir") = Absolute(run_dir)

\* C8: after the emission the basin file exists and its entire content is the
\* basin identifier, whatever the path held before.
C8_BasinFileIsExactlyBasin ==
    cell_runs > 0 =>
        /\ finetune_basin_txt.exists
        /\ finetune_basin_txt.content = <<basin>>

\* the emission has overwritten a list of other basins
C8_Witness ==
    /\ cell_runs = 1
    /\ basin_txt_before.exists
    /\ basin_txt_before.content # <<>>
    /\ basin_txt_before.content # <<basin>>
    /\ finetune_basin_txt.content = <<basin>>

(***************************************************************************)
(* Properties of the result comparison.                                    *)
(***************************************************************************)
\* the comparison cell has loaded both test results
Compared == {"base_model_results", "finetuned_results"} \subseteq defined

\* C9: when basin and metric are present under "1D" in both mappings, the
\* comparison reports the value of the first and the value of the second
\* mapping, in that order and unchanged.
C9_ComparisonReportsBoth ==
    (Compared /\ basin \in WithNSE(fs_test_base.content)
              /\ basin \in WithNSE(fs_test_finetuned.content)) =>
        /\ pc = "done"
        /\ {"base_model_nse", "finetune_nse"} \subseteq defined
        /\ base_model_nse = Num(Score(fs_test_base.content, basin))
        /\ finetune_nse = Num(Score(fs_test_finetuned.content, basin))

\* the comparison of 0.602 with 0.717
C9_Witness ==
    /\ pc = "done"
    /\ Score(base_model_results, basin) = 1204
    /\ Score(finetuned_results, basin) = 1434
    /\ base_model_nse = Num(1204)
    /\ finetune_nse = Num(1434)

\* C10: when the basin or the metric is absent from one of the two mappings, the
\* comparison ends in a lookup error and reports no value for that mapping.
C10_MissingKeyIsLookupError ==
    /\ (Compared /\ basin \notin WithNSE(base_model_results)) =>
          /\ pc = "failed"
          /\ error.type = "KeyError"
          /\ "base_model_nse" \notin defined
          /\ "finetune_nse" \notin defined
    /\ (Compared /\ basin \notin WithNSE(finetuned_results)) =>
          /\ pc = "failed"
          /\ error.type = "KeyError"
          /\ "finetune_nse" \notin defined

\* the base results have the value and the finetuned results lack the metric
C10_Witness ==
    /\ Compared
    /\ basin \in WithNSE(base_model_results)
    /\ basin \in DOMAIN finetuned_results
    /\ "1D" \in DOMAIN finetuned_results[basin]
    /\ "NSE" \notin DOMAIN finetuned_results[basin]["1D"]
    /\ error.type = "KeyError"

\* the mapping that made the comparison of a with b fail
Lacking(a, b, k) == IF k \notin WithNSE(a) THEN "base_model_results" ELSE "finetuned_results"

\* C11: the lookup error of a comparison identifies the key that was absent and
\* the mapping that lacked it: no comparison that fails on the other mapping
\* raises the same error.
C11_ErrorIdentifiesMappingAndKey ==
    (Compared /\ error.type = "KeyError") =>
        /\ error.arg \in {basin, "1D", "NSE"}
        /\ \A a \in TestMappings(basin), b \in TestMappings(basin) :
              (/\ basin \notin WithNSE(a) \cap WithNSE(b)
               /\ ComparisonError(a, b, basin) = error)
              => Lacking(a, b, basin) = Lacking(base_model_results, finetuned_results, basin)

(***************************************************************************)
(* Properties of the order of the flow.                                    *)
(***************************************************************************)
\* an invocation of fn with path argument arg has been made / has returned
Invoked(fn, arg) == \E i \in 1..Len(calls) : calls[i].fn = fn /\ calls[i].arg = arg

Returned(fn, arg) ==
    \E i \in 1..Len(calls) : calls[i].fn = fn /\ calls[i].arg = arg /\ calls[i].ok

\* C12: each results mapping is loaded, and its load is attempted, only after
\* the external call that produces it has returned and stored it.
C12_ReadAfterPersist ==
    /\ (pc = "select" \/ "validation_results" \in defined) =>
          Returned("start_run", ConfigFile) /\ fs_validation.exists
    /\ (pc = "compare" \/ "base_model_results" \in defined) =>
          Returned("eval_run", RunDirPath) /\ fs_test_base.exists
    /\ (pc = "compare" \/ "finetuned_results" \in defined) =>
          Returned("eval_run", FinetuneDirPath) /\ fs_test_finetuned.exists

\* all three results mappings have been loaded
C12_Witness ==
    /\ pc = "done"
    /\ {"validation_results", "base_model_results", "finetuned_results"} \subseteq defined
    /\ validation_results = fs_validation.content
    /\ base_model_results = fs_test_base.content
    /\ finetuned_results = fs_test_finetuned.content

\* the text that the augmentation appends for the run directory of the notebook
BaseRunEntry == <<"base_run_dir", ": ">> \o Absolute(RunDirPath)

\* C13: finetune is invoked only after the base-run reference has been appended
\* to the configuration and the basin file holds the selected basin; neither
\* file is written after that, and the flow appends to the configuration once.
C13_FinetuneAfterBothWrites ==
    /\ cell_runs <= 1
    /\ Invoked("finetune", FinetuneConfigFile) =>
          /\ cell_runs = 1
          /\ Selected
          /\ yml_before \in TutorialDocs
          /\ finetune_yml = yml_before \o BaseRunEntry
          /\ finetune_basin_txt = File(<<basin>>)
    /\ pc = "done" => cell_runs = 1

\* finetune has returned and the flow has ended
C13_Witness ==
    /\ pc = "done"
    /\ Returned("finetune", FinetuneConfigFile)
    /\ cell_runs = 1
    /\ finetune_yml = yml_before \o BaseRunEntry

\* the number of invocations of fn with path argument arg
Invocations(fn, arg) ==
    Cardinality({i \in 1..Len(calls) : calls[i].fn = fn /\ calls[i].arg = arg})

\* the invocation that failed, if one did, is the last one
Failed(fn, arg) ==
    /\ calls # <<>>
    /\ calls[Len(calls)].fn = fn
    /\ calls[Len(calls)].arg = arg
    /\ ~calls[Len(calls)].ok

\* C14: when start_run, finetune or eval_run fails, the flow stops with that
\* failure, the call is not invoked again and no later step is executed.
C14_FailurePropagates ==
    /\ \A i \in 1..Len(calls) :
          /\ Invocations(calls[i].fn, calls[i].arg) = 1
          /\ ~calls[i].ok =>
                /\ i = Len(calls)
                /\ pc = "failed"
                /\ error = [type |-> "ExternalError", arg |-> calls[i].fn]
    /\ pc = "failed" => ~ENABLED Next
    /\ Failed("start_run", ConfigFile) =>
          defined = {} /\ cell_runs = 0 /\ np_random_draws = 0
    /\ Failed("finetune", FinetuneConfigFile) =>
          "finetune_dir" \notin defined /\ ~fs_test_base.exists /\ ~fs_test_finetuned.exists
    /\ Failed("eval_run", RunDirPath) =>
          "finetune_dir" \notin defined /\ ~fs_test_finetuned.exists /\ ~Compared
    /\ Failed("eval_run", FinetuneDirPath) => ~Compared

\* finetune has failed after the two files were written
C14_Witness ==
    /\ Failed("finetune", FinetuneConfigFile)
    /\ pc = "failed"
    /\ error = [type |-> "ExternalError", arg |-> "finetune"]
    /\ cell_runs = 1

(***************************************************************************)
(* Further properties of the basin selection.                              *)
(***************************************************************************)
\* the selection cell can return basin k
CanSelect(k) == ENABLED (SelectionCell /\ basin' = k /\ pc' = NextCell("select"))

\* C15: the results mapping and what else the selector is given determine the
\* basin it returns, and the selection neither uses nor changes numpy's global
\* random state.
C15_SelectionDeterministic ==
    /\ pc = "select" => \A j \in Basins, k \in Basins : (CanSelect(j) /\ CanSelect(k)) => j = k
    /\ np_random_draws = 0

\* C16: after the selection, successful or failed, the results mapping in
\* memory is the mapping that was loaded, record by record, and nothing but
\* the selection's own variables has changed.
C16_SelectionLeavesMappingUnchanged ==
    /\ "validation_results" \in defined =>
          /\ DOMAIN validation_results = DOMAIN fs_validation.content
          /\ \A k \in DOMAIN validation_results :
                validation_results[k] = fs_validation.content[k]
    /\ ("run_dir" \in defined /\ cell_runs = 0) =>
          /\ finetune_yml \in TutorialDocs
          /\ finetune_basin_txt \in OldBasinFiles
          /\ ~fs_test_base.exists
          /\ ~fs_test_finetuned.exists
          /\ defined \subseteq {"run_dir", "validation_results", "median_nse", "basins", "basin"}
          /\ Len(calls) = 1

\* a selection among two candidates or more has returned
C16_Witness ==
    /\ Selected
    /\ pc = "augment"
    /\ Len(basins) >= 2
    /\ validation_results = fs_validation.content

(***************************************************************************)
(* Further properties of the order of the flow.                            *)
(***************************************************************************)
\* the position in calls of the invocation of fn with path argument arg that
\* returned, 0 if there is none
ReturnIndex(fn, arg) ==
    IF Returned(fn, arg)
    THEN CHOOSE i \in 1..Len(calls) : calls[i].fn = fn /\ calls[i].arg = arg /\ calls[i].ok
    ELSE 0

\* C17: eval_run is invoked once on the base run and once on the finetuned run,
\* both for the "test" period, the finetuned run only after finetune has
\* returned, and both evaluations have returned when the comparison runs.
C17_EvaluateBothOnce ==
    /\ \A i \in 1..Len(calls) :
          calls[i].fn = "eval_run" =>
             /\ calls[i].period = "test"
             /\ calls[i].arg \in {RunDirPath, FinetuneDirPath}
             /\ Invocations("eval_run", calls[i].arg) = 1
    /\ Invoked("eval_run", FinetuneDirPath) =>
          /\ Returned("finetune", FinetuneConfigFile)
          /\ \A i \in 1..Len(calls) :
                (calls[i].fn = "eval_run" /\ calls[i].arg = FinetuneDirPath)
                   => ReturnIndex("finetune", FinetuneConfigFile) < i
    /\ (pc \in {"compare", "done"} \/ Compared) =>
          /\ Returned("eval_run", RunDirPath)
          /\ Returned("eval_run", FinetuneDirPath)
          /\ Invocations("eval_run", RunDirPath) = 1
          /\ Invocations("eval_run", FinetuneDirPath) = 1

\* the comparison has run after the four calls
C17_Witness ==
    /\ pc = "done"
    /\ Len(calls) = 4
    /\ calls[2] = Call("finetune", FinetuneConfigFile, "", TRUE)
    /\ calls[3] = Call("eval_run", RunDirPath, "test", TRUE)
    /\ calls[4] = Call("eval_run", FinetuneDirPath, "test", TRUE)

\* the basin that the basin file names
WrittenBasin == finetune_basin_txt.content[1]

\* the selected basin and the base run directory are in use everywhere
SameBasinAndBaseRun ==
    /\ Selected =>
          /\ basin \in {basins[i] : i \in 1..Len(basins)}
          /\ run_dir = RunDirPath
    /\ cell_runs >= 1 =>
          /\ finetune_basin_txt.content = <<basin>>
          /\ finetune_yml = yml_before \o <<"base_run_dir", ": ">> \o Absolute(run_dir)
    /\ \A i \in 1..Len(calls) :
          (calls[i].fn = "eval_run" /\ calls[i].arg # FinetuneDirPath) => calls[i].arg = run_dir
    /\ pc = "done" =>
          /\ base_model_nse = Num(Score(base_model_results, WrittenBasin))
          /\ finetune_nse = Num(Score(finetuned_results, WrittenBasin))
    /\ (Compared /\ pc = "failed" /\ error.arg \notin {"1D", "NSE"}) => error.arg = WrittenBasin

\* C18: the basin looked up at comparison time is the basin that was selected
\* and written to the basin file, the directory written as base_run_dir is the
\* run directory of the selection and of the base evaluation, and no step
\* after the selection reassigns basin or run_dir.
C18_SameBasinAndBaseRun ==
    /\ []SameBasinAndBaseRun
    /\ [][Selected => (basin' = basin /\ run_dir' = run_dir)]_vars

\* the comparison has looked up the second of several candidates
C18_Witness ==
    /\ pc = "done"
    /\ Len(basins) >= 2
    /\ basin = basins[2]
    /\ WrittenBasin = basin
    /\ calls[3].arg = run_dir

(***************************************************************************)
(* Further properties of the configuration document.                       *)
(***************************************************************************)
\* the text that the last augmentation wrote
WrittenText == <<"base_run_dir", ": ">> \o Absolute(run_dir)

EndsWithTerminator(d) == d # <<>> /\ d[Len(d)] = "\n"

\* the written text is a line of its own: the last line of the document
OwnLine ==
    LET ls == SplitLines(finetune_yml)
    IN  ls # <<>> /\ ls[Len(ls)] = WrittenText

\* the document is its previous content followed by the written text, which
\* holds no line terminator
AppendedVerbatim ==
    /\ finetune_yml = yml_before \o WrittenText
    /\ \A i \in 1..Len(WrittenText) : WrittenText[i] # "\n"

\* C19, as stated: the written text has no line terminator before or after it,
\* the previous content is a prefix of the new content, and the text is a line
\* of its own only if the document ended with a line terminator.
C19_Original ==
    cell_runs >= 1 =>
        /\ AppendedVerbatim
        /\ OwnLine => EndsWithTerminator(yml_before)

\* C19, amended: ... a line of its own only if the document was empty or ended
\* with a line terminator.
C19_OwnLineOnlyAfterTerminatorOrEmpty ==
    cell_runs >= 1 =>
        /\ AppendedVerbatim
        /\ OwnLine => (yml_before = <<>> \/ EndsWithTerminator(yml_before))

\* the second augmentation has continued the line of the first
C19_Witness ==
    /\ cell_runs = 2
    /\ AppendedVerbatim
    /\ ~OwnLine
    /\ ~EndsWithTerminator(yml_before)

====
